---- MODULE Spec2Model ----
(***************************************************************************)
(* Model of mctsFive.py: the GameBoard class (grid, legality, win          *)
(* detection, copy), the MCTSNode tree, the search loop of main            *)
(* (select / expand / best_child / simulate / backpropagate) and the turn  *)
(* loop of main.                                                           *)
(*                                                                         *)
(* Python objects are modelled on a heap: `heap` is the sequence of the    *)
(* GameBoard objects alive, a reference is an index into it, and a node    *)
(* holds the reference of its state, so that two names for one object      *)
(* (MCTSNode(board) keeps the caller's board itself) are the same index.   *)
(***************************************************************************)
EXTENDS Integers, Sequences, FiniteSets, TLC

VARIABLES
    heap,      \* Seq of GameBoard objects [board, last_move]; index = reference
    cpy,       \* board harness: reference of the board returned by copy(), 0 if none
    call,      \* board harness: the arguments of the last perform_move call
    ncalls,    \* board harness: number of perform_move calls made
    nodes,     \* Seq of MCTSNode objects [state, parent, children, visits, wins]
    pc,        \* position in the search loop of main
    node,      \* select's local `node`, then main's selected_node (index, 0 = None)
    cur,       \* simulate's local current_state (reference, 0 when not in simulate)
    result,    \* main's local `result`
    iter,      \* completed iterations of the for loop of main
    move,      \* (row, col) read from best_child(root), None before
    given,     \* the grid and last_move of the caller's board when the search began
    player_turn \* main's local player_turn: 1 for human, -1 for computer

vars == <<heap, cpy, call, ncalls, nodes, pc, node, cur, result, iter, move, given,
          player_turn>>

searchVars == <<nodes, pc, node, cur, result, iter, move, given, player_turn>>

----------------------------------------------------------------------------
(* Bounds of the model *)

\* side of the board (GameBoard(size); main uses the default, 10)
Size == 5
\* perform_move calls made on the boards of the board harness
MaxCalls == 1
\* iterations of the search loop (range(10000) in main)
MaxIter == 4
\* empty cells of the board a search starts from
MaxEmpty == 4

(* Program constants *)

\* count >= 5 in check_winner, range(1, 5) steps each way
WinLen == 5

None == <<>>
Players == {1, -1}
Coord == 0 .. (Size - 1)

----------------------------------------------------------------------------
(* GameBoard *)

\* Python list indexing: a negative index counts from the end
Idx(i) == IF i < 0 THEN i + Size ELSE i

\* self.board[r][c]
At(b, r, c) == b.board[Idx(r)][Idx(c)]

\* GameBoard.__init__
NewBoard == [board |-> [r \in Coord |-> [c \in Coord |-> 0]], last_move |-> None]

\* is_valid_move without the lower bounds (row < size in place of 0 <= row < size)
is_valid_move_nolower(b, row, col) ==
    row < Size /\ col < Size /\ At(b, row, col) = 0

is_valid_move(b, row, col) ==
    0 <= row /\ row < Size /\ 0 <= col /\ col < Size /\ At(b, row, col) = 0

adjacent_offsets ==
    << <<-1, 0>>, <<1, 0>>, <<0, -1>>, <<0, 1>>,
       <<-1, -1>>, <<-1, 1>>, <<1, -1>>, <<1, 1>> >>

\* the inner loop of get_legal_moves without the lower bounds on nr and nc
RECURSIVE has_adjacent_wrap(_, _, _, _)
has_adjacent_wrap(b, r, c, k) ==
    IF k > Len(adjacent_offsets) THEN FALSE
    ELSE LET nr == r + adjacent_offsets[k][1]
             nc == c + adjacent_offsets[k][2]
         IN IF nr < Size /\ nc < Size /\ At(b, nr, nc) # 0
            THEN TRUE
            ELSE has_adjacent_wrap(b, r, c, k + 1)

\* the inner for loop of get_legal_moves from offset k on: TRUE when it
\* reaches the append (and break), FALSE when it runs out of offsets
RECURSIVE has_adjacent(_, _, _, _)
has_adjacent(b, r, c, k) ==
    IF k > Len(adjacent_offsets) THEN FALSE
    ELSE LET nr == r + adjacent_offsets[k][1]
             nc == c + adjacent_offsets[k][2]
         IN IF 0 <= nr /\ nr < Size /\ 0 <= nc /\ nc < Size /\ At(b, nr, nc) # 0
            THEN TRUE
            ELSE has_adjacent(b, r, c, k + 1)

\* cells are numbered in the order the two nested range(self.size) loops
\* visit them: cell i is (i \div Size, i % Size)
CellNumbers == 0 .. (Size * Size - 1)

\* the loops of get_legal_moves with range(self.size - 1) for the columns:
\* the last column is not scanned
legal_cells_short(b) ==
    {i \in CellNumbers :
        /\ i % Size < Size - 1
        /\ At(b, i \div Size, i % Size) = 0
        /\ has_adjacent(b, i \div Size, i % Size, 1)}

\* the cells for which the loops of get_legal_moves reach the append
legal_cells(b) ==
    {i \in CellNumbers :
        At(b, i \div Size, i % Size) = 0 /\ has_adjacent(b, i \div Size, i % Size, 1)}

\* legal_moves after the loops have run from cell i on: the cells of S, in
\* the order of the scan
RECURSIVE appended_from(_, _)
appended_from(S, i) ==
    IF i >= Size * Size THEN <<>>
    ELSE (IF i \in S THEN << <<i \div Size, i % Size>> >> ELSE <<>>)
            \o appended_from(S, i + 1)

get_legal_moves(b) == appended_from(legal_cells(b), 0)

\* perform_move that tests the range only, not that the cell is Empty
perform_move_overwrite(h, ref, row, col, player) ==
    IF 0 <= row /\ row < Size /\ 0 <= col /\ col < Size
    THEN [h EXCEPT ![ref] =
            [board |-> [@.board EXCEPT ![Idx(row)][Idx(col)] = player],
             last_move |-> <<row, col>>]]
    ELSE h

\* perform_move on the object `ref` of heap h: the heap after the call
perform_move(h, ref, row, col, player) ==
    IF is_valid_move(h[ref], row, col)
    THEN [h EXCEPT ![ref] =
            [board |-> [@.board EXCEPT ![Idx(row)][Idx(col)] = player],
             last_move |-> <<row, col>>]]
    ELSE h

directions == << <<0, 1>>, <<1, 0>>, <<1, 1>>, <<1, -1>> >>

\* one of the two counting loops of check_winner, from step i on: the number
\* of cells it adds to count before it breaks; sgn is 1 forward, -1 backward
RECURSIVE run_from(_, _, _, _, _, _, _)
run_from(b, row, col, dr, dc, sgn, i) ==
    IF i >= WinLen THEN 0
    ELSE LET r == row + sgn * i * dr
             c == col + sgn * i * dc
         IN IF 0 <= r /\ r < Size /\ 0 <= c /\ c < Size
               /\ At(b, r, c) = At(b, row, col)
            THEN 1 + run_from(b, row, col, dr, dc, sgn, i + 1)
            ELSE 0

\* count of check_winner for direction number k
count_dir(b, row, col, k) ==
    1 + run_from(b, row, col, directions[k][1], directions[k][2], 1, 1)
      + run_from(b, row, col, directions[k][1], directions[k][2], -1, 1)

\* the loop over directions with count > 5 in place of count >= 5
RECURSIVE check_from_strict(_, _, _, _)
check_from_strict(b, row, col, k) ==
    IF k > Len(directions) THEN FALSE
    ELSE IF count_dir(b, row, col, k) > WinLen THEN TRUE
    ELSE check_from_strict(b, row, col, k + 1)

\* the for loop over directions from direction k on
RECURSIVE check_from(_, _, _, _)
check_from(b, row, col, k) ==
    IF k > Len(directions) THEN FALSE
    ELSE IF count_dir(b, row, col, k) >= WinLen THEN TRUE
    ELSE check_from(b, row, col, k + 1)

check_winner(b, row, col) == check_from(b, row, col, 1)

\* the cells at which the condition of get_winner's if holds
winning_cells(b) ==
    {i \in CellNumbers :
        At(b, i \div Size, i % Size) # 0 /\ check_winner(b, i \div Size, i % Size)}

\* get_winner returns at the first such cell of the scan, 0 when there is none
get_winner(b) ==
    LET W == winning_cells(b)
    IN IF W = {} THEN 0
       ELSE LET i == CHOOSE x \in W : \A y \in W : x <= y
            IN At(b, i \div Size, i % Size)

\* is_terminal without the test for the full board
is_terminal_win_only(b) == get_winner(b) # 0

is_terminal(b) ==
    get_winner(b) # 0 \/ \A r \in Coord : \A c \in Coord : At(b, r, c) # 0

\* copy() that returns the board itself
copy_alias(h, ref) == [heap |-> h, ref |-> ref]

\* copy(): a new object with its own grid; the heap with it and its reference
copy(h, ref) ==
    [heap |-> Append(h, [board |-> h[ref].board, last_move |-> h[ref].last_move]),
     ref |-> Len(h) + 1]

----------------------------------------------------------------------------
(* MCTSNode and the search *)

\* the searching player: player=-1 in expand and simulate, result == -1 in
\* backpropagate
Searcher == -1

\* MCTSNode.__init__; parent 0 is None
NewNode(state, parent) ==
    [state |-> state, parent |-> parent, children |-> <<>>, visits |-> 0, wins |-> 0]

\* Floating point is modelled in fixed point.  LnScale is the scale of
\* math.log, SqrtScale that of math.sqrt and ScoreScale that of a score; the
\* order of the fixed-point scores of any two children of one node is the
\* order of their floating-point scores for all visits up to 8.
LnScale == 1000000
SqrtScale == 10000
ScoreScale == 100000

\* the series 2 * sum of x^(2k+1) / (2k+1), x = (n-1)/(n+1), from term k on,
\* p being LnScale * x^(2k+1)
RECURSIVE ln_series(_, _, _)
ln_series(n, p, k) ==
    IF p = 0 THEN 0
    ELSE 2 * (p \div (2 * k + 1))
         + ln_series(n, (p * (n - 1) * (n - 1)) \div ((n + 1) * (n + 1)), k + 1)

\* math.log(n) * LnScale, for n >= 1
math_log(n) == ln_series(n, (LnScale * (n - 1)) \div (n + 1), 0)

\* the integer square root of x, by bisection of lo .. hi
RECURSIVE isqrt(_, _, _)
isqrt(x, lo, hi) ==
    IF lo >= hi THEN lo
    ELSE LET mid == (lo + hi + 1) \div 2
         IN IF mid * mid <= x THEN isqrt(x, mid, hi) ELSE isqrt(x, lo, mid - 1)

\* math.sqrt(math.log(n) / v) * SqrtScale, tabulated for the visit counts
\* a search of MaxIter iterations can reach
SqrtLn ==
    [n \in 1 .. (MaxIter + 1) |-> [v \in 1 .. (MaxIter + 1) |->
        isqrt((math_log(n) \div v) * ((SqrtScale * SqrtScale) \div LnScale), 0, 2 * SqrtScale)]]

\* exploration_weight = 1.4, times 10
exploration_weight == 14

\* score of best_child for a child with w wins and v visits under a node
\* with n visits, times ScoreScale
uct_score(w, v, n) ==
    (ScoreScale * w) \div v
        + exploration_weight * SqrtLn[n][v] * (ScoreScale \div (10 * SqrtScale))

\* float('-inf'): below every score
NegInf == -1

\* what a call returns when it raises instead (ZeroDivisionError, ValueError,
\* AttributeError, IndexError, TypeError)
Raised == -1

\* the for loop of best_child with `if score >= best_score`: among equal
\* scores the last child is kept
RECURSIVE best_from_last(_, _, _, _, _)
best_from_last(ns, n, k, best_score, best) ==
    IF k > Len(ns[n].children) THEN best
    ELSE LET child == ns[n].children[k]
         IN IF ns[child].visits = 0 \/ ns[n].visits = 0 THEN Raised
            ELSE LET score == uct_score(ns[child].wins, ns[child].visits, ns[n].visits)
                 IN IF score >= best_score
                    THEN best_from_last(ns, n, k + 1, score, child)
                    ELSE best_from_last(ns, n, k + 1, best_score, best)

\* the for loop of best_child from child number k on; best is 0 for None
RECURSIVE best_from(_, _, _, _, _)
best_from(ns, n, k, best_score, best) ==
    IF k > Len(ns[n].children) THEN best
    ELSE LET child == ns[n].children[k]
         IN IF ns[child].visits = 0 \/ ns[n].visits = 0 THEN Raised
            ELSE LET score == uct_score(ns[child].wins, ns[child].visits, ns[n].visits)
                 IN IF score > best_score
                    THEN best_from(ns, n, k + 1, score, child)
                    ELSE best_from(ns, n, k + 1, best_score, best)

\* best_child(node): a node, 0 for None, or Raised
best_child(ns, n) == best_from(ns, n, 1, NegInf, 0)

\* [child.state.last_move for child in node.children]
child_moves(ns, h, n) ==
    {h[ns[ns[n].children[k]].state].last_move : k \in 1 .. Len(ns[n].children)}

\* untried_moves taken from all the Empty cells, next to a stone or not
untried_moves_any_empty(ns, h, n) ==
    LET tried == child_moves(ns, h, n)
        keep(mv) == mv \notin tried /\ At(h[ns[n].state], mv[1], mv[2]) = 0
    IN SelectSeq(appended_from(CellNumbers, 0), keep)

\* untried_moves of expand
untried_moves(ns, h, n) ==
    LET tried == child_moves(ns, h, n)
        keep(mv) == mv \notin tried
    IN SelectSeq(get_legal_moves(h[ns[n].state]), keep)

\* lines 96-100 of expand with player=1: the stone is the opponent's
expand_with_opponent(ns, h, n, mv) ==
    LET k == copy(h, ns[n].state)
        new == Len(ns) + 1
    IN [nodes |-> Append([ns EXCEPT ![n].children = Append(@, new)],
                         NewNode(k.ref, n)),
        heap |-> perform_move(k.heap, k.ref, mv[1], mv[2], -Searcher),
        ret |-> new]

\* lines 96-100 of expand for the move chosen: the tree and the heap with
\* the new node, and the node returned
expand_with(ns, h, n, mv) ==
    LET k == copy(h, ns[n].state)
        new == Len(ns) + 1
    IN [nodes |-> Append([ns EXCEPT ![n].children = Append(@, new)],
                         NewNode(k.ref, n)),
        heap |-> perform_move(k.heap, k.ref, mv[1], mv[2], Searcher),
        ret |-> new]

\* expand that chooses among legal_moves, tried or not
expand_any_legal(ns, h, n) ==
    LET legal_moves == get_legal_moves(h[ns[n].state])
    IN {expand_with(ns, h, n, legal_moves[i]) : i \in 1 .. Len(legal_moves)}

\* expand(node): one outcome for each move random.choice can return, or the
\* outcome of the fall-back to best_child
expand(ns, h, n) ==
    LET untried == untried_moves(ns, h, n)
    IN IF untried # <<>>
       THEN {expand_with(ns, h, n, untried[i]) : i \in 1 .. Len(untried)}
       ELSE {[nodes |-> ns, heap |-> h, ret |-> best_child(ns, n)]}

\* backpropagate with `if node is not None` in place of the while: only the
\* node itself is updated
backpropagate_node_only(ns, n, res) ==
    IF n = 0 THEN ns
    ELSE [ns EXCEPT ![n].visits = @ + 1,
                    ![n].wins = IF res = Searcher THEN @ + 1 ELSE @]

\* backpropagate with `if result != 0`: a win of either player is credited
RECURSIVE backpropagate_any_winner(_, _, _)
backpropagate_any_winner(ns, n, res) ==
    IF n = 0 THEN ns
    ELSE backpropagate_any_winner(
            [ns EXCEPT ![n].visits = @ + 1,
                       ![n].wins = IF res # 0 THEN @ + 1 ELSE @],
            ns[n].parent, res)

\* backpropagate with `while node.parent is not None`: it stops below the root
RECURSIVE backpropagate_below_root(_, _, _)
backpropagate_below_root(ns, n, res) ==
    IF n = 0 \/ ns[n].parent = 0 THEN ns
    ELSE backpropagate_below_root(
            [ns EXCEPT ![n].visits = @ + 1,
                       ![n].wins = IF res = Searcher THEN @ + 1 ELSE @],
            ns[n].parent, res)

\* backpropagate(node, result): the tree after the walk up from n
RECURSIVE backpropagate(_, _, _)
backpropagate(ns, n, res) ==
    IF n = 0 THEN ns
    ELSE backpropagate(
            [ns EXCEPT ![n].visits = @ + 1,
                       ![n].wins = IF res = Searcher THEN @ + 1 ELSE @],
            ns[n].parent, res)

\* the objects no name refers to any more are collected: the caller's board
\* (reference 1) and the states of the nodes stay
collect(h, ns) ==
    LET used == {1} \cup {ns[i].state : i \in 1 .. Len(ns)}
        top == CHOOSE x \in used : \A y \in used : y <= x
    IN SubSeq(h, 1, top)

NoCall == [ref |-> 0, row |-> 0, col |-> 0, player |-> 0]

----------------------------------------------------------------------------
(* Board harness: a caller of the GameBoard interface.  It starts from a    *)
(* board that earlier perform_move calls have produced (a straight run of   *)
(* stones of one player, or no stone at all), then calls perform_move with  *)
(* any player and probe coordinates, in and out of range, on the board or   *)
(* on a copy of it.                                                         *)

\* the cells r + i*dr, c + i*dc for i < len
LineCells(r, c, dr, dc, len) == {<<r + i * dr, c + i * dc>> : i \in 0 .. (len - 1)}

\* the board after perform_move(..., p) on each cell of the line, last cell last
LineBoard(r, c, dr, dc, len, p) ==
    [board |-> [rr \in Coord |-> [cc \in Coord |->
                    IF <<rr, cc>> \in LineCells(r, c, dr, dc, len) THEN p ELSE 0]],
     last_move |-> <<r + (len - 1) * dr, c + (len - 1) * dc>>]

\* the axes the runs of the start boards lie on
LineAxes == << <<0, 1>>, <<1, 0>>, <<1, 1>>, <<1, -1>> >>

StartBoards ==
    {NewBoard} \cup
    {LineBoard(x[1], x[2], LineAxes[x[3]][1], LineAxes[x[3]][2], x[4], x[5]) :
        x \in {y \in Coord \X Coord \X (1 .. Len(LineAxes)) \X ((WinLen - 1) .. Size) \X Players :
                LineCells(y[1], y[2], LineAxes[y[3]][1], LineAxes[y[3]][2], y[4])
                    \subseteq Coord \X Coord}}

\* the (row, col) arguments the harness passes to perform_move
Probes ==
    {<<0, 0>>, <<Size - 1, 0>>, <<2, 2>>,
     <<-1, 0>>, <<0, -1>>, <<Size, 0>>, <<0, Size>>}

InitBoard ==
    /\ heap \in {<<b>> : b \in StartBoards}
    /\ cpy = 0
    /\ call = NoCall
    /\ ncalls = 0
    /\ nodes = <<>>
    /\ pc = "api"
    /\ node = 0
    /\ cur = 0
    /\ result = 0
    /\ iter = 0
    /\ move = None
    /\ given = None
    /\ player_turn = 1

\* board.perform_move(row, col, player) on the object `ref`
PerformMove(ref, row, col, player) ==
    /\ pc = "api"
    /\ ncalls < MaxCalls
    /\ heap' = perform_move(heap, ref, row, col, player)
    /\ call' = [ref |-> ref, row |-> row, col |-> col, player |-> player]
    /\ ncalls' = ncalls + 1
    /\ UNCHANGED <<cpy, searchVars>>

\* cpy = board.copy()
Copy ==
    /\ pc = "api"
    /\ cpy = 0
    /\ LET k == copy(heap, 1)
       IN /\ heap' = k.heap
          /\ cpy' = k.ref
    /\ UNCHANGED <<call, ncalls, searchVars>>

NextBoard ==
    \/ \E ref \in 1 .. Len(heap) : \E rc \in Probes : \E p \in Players :
           PerformMove(ref, rc[1], rc[2], p)
    \/ Copy

SpecBoard == InitBoard /\ [][NextBoard]_vars

----------------------------------------------------------------------------
(* Claims about GameBoard *)

OutOfRange(row, col) == row < 0 \/ row >= Size \/ col < 0 \/ col >= Size

\* the step is a perform_move call of the harness
IsCall == ncalls' = ncalls + 1

\* C2: perform_move with an out-of-range coordinate (negative ones included)
\* or on an occupied cell leaves every board as it was: cells and last_move
\* keep their values, and the call completes like any other.
C2_InvalidMoveIsNoOp ==
    [][IsCall =>
        ((\/ OutOfRange(call'.row, call'.col)
          \/ heap[call'.ref].board[call'.row][call'.col] # 0)
         => heap' = heap)]_vars

\* a call with a negative row has been made on a board that holds stones
C2_Witness ==
    /\ ncalls > 0
    /\ call.row < 0
    /\ \E r \in Coord : \E c \in Coord : heap[call.ref].board[r][c] # 0

\* C3: a cell changes only from Empty to the player of a perform_move call on
\* that cell, a non-Empty cell never changes, and a call on an in-range Empty
\* cell sets that cell and last_move and nothing else.
C3_CellsOnlyFilled ==
    [][\A ref \in 1 .. Len(heap) :
        /\ \A r \in Coord : \A c \in Coord :
              /\ heap[ref].board[r][c] # 0
                    => heap'[ref].board[r][c] = heap[ref].board[r][c]
              /\ heap'[ref].board[r][c] # heap[ref].board[r][c]
                    => /\ IsCall
                       /\ call' = [ref |-> ref, row |-> r, col |-> c,
                                   player |-> heap'[ref].board[r][c]]
                       /\ call'.player \in Players
        /\ heap'[ref].last_move # heap[ref].last_move
              => IsCall /\ call'.ref = ref /\ ~OutOfRange(call'.row, call'.col)
                 /\ heap[ref].board[call'.row][call'.col] = 0
        /\ (IsCall /\ call'.ref = ref /\ ~OutOfRange(call'.row, call'.col)
              /\ heap[ref].board[call'.row][call'.col] = 0)
              => /\ heap'[ref].board[call'.row][call'.col] = call'.player
                 /\ heap'[ref].last_move = <<call'.row, call'.col>>]_vars

\* a call has placed a stone of the other player next to stones already there
C3_Witness ==
    /\ ncalls > 0
    /\ ~OutOfRange(call.row, call.col)
    /\ heap[call.ref].last_move = <<call.row, call.col>>
    /\ heap[call.ref].board[call.row][call.col] = call.player
    /\ \E r \in Coord : \E c \in Coord : heap[call.ref].board[r][c] = -call.player

\* (r, c) has a stone on one of its 8 neighbours that are on the board
HasStoneNextTo(b, r, c) ==
    \E dr \in {-1, 0, 1} : \E dc \in {-1, 0, 1} :
        /\ dr # 0 \/ dc # 0
        /\ r + dr \in Coord
        /\ c + dc \in Coord
        /\ b.board[r + dr][c + dc] # 0

\* the Empty cells with a stone next to them
Frontier(b) ==
    {x \in Coord \X Coord :
        b.board[x[1]][x[2]] = 0 /\ HasStoneNextTo(b, x[1], x[2])}

RowMajorBefore(x, y) == x[1] < y[1] \/ (x[1] = y[1] /\ x[2] < y[2])

LegalMovesAsSpecified(b) ==
    LET lm == get_legal_moves(b)
    IN /\ {lm[i] : i \in 1 .. Len(lm)} = Frontier(b)
       /\ \A i \in 1 .. Len(lm) : \A j \in 1 .. Len(lm) :
             i < j => RowMajorBefore(lm[i], lm[j])
       /\ (\A r \in Coord : \A c \in Coord : b.board[r][c] = 0) => lm = <<>>

\* C4: get_legal_moves returns exactly the Empty cells with a stone among
\* their in-range 8 neighbours, each once, in row-major order, and nothing
\* on a board without stones.
C4_LegalMoves ==
    pc = "api" => \A ref \in 1 .. Len(heap) : LegalMovesAsSpecified(heap[ref])

\* a call has put a stone on the last row of a board whose first row is
\* Empty: the board has legal moves, none of them on the first row
C4_Witness ==
    /\ pc = "api"
    /\ ncalls > 0
    /\ heap[1].last_move = <<Size - 1, 0>>
    /\ \E c \in Coord : heap[1].board[Size - 1][c] # 0
    /\ \A c \in Coord : heap[1].board[0][c] = 0
    /\ get_legal_moves(heap[1]) # <<>>
    /\ \A i \in 1 .. Len(get_legal_moves(heap[1])) : get_legal_moves(heap[1])[i][1] # 0

Axes == {<<0, 1>>, <<1, 0>>, <<1, 1>>, <<1, -1>>}

\* player p has WinLen stones in a row starting at (r, c) along axis d
FiveAt(b, p, r, c, d) ==
    \A i \in 0 .. (WinLen - 1) :
        /\ r + i * d[1] \in Coord
        /\ c + i * d[2] \in Coord
        /\ b.board[r + i * d[1]][c + i * d[2]] = p

HasFive(b, p) ==
    \E r \in Coord : \E c \in Coord :
        b.board[r][c] = p /\ \E d \in Axes : FiveAt(b, p, r, c, d)

\* C5: get_winner returns a player exactly when some player has at least five
\* stones in a row along one of the four axes, and then a player who has;
\* with no such run (runs of four or less) it returns Empty.
C5_Winner ==
    pc = "api" =>
        \A ref \in 1 .. Len(heap) :
            LET w == get_winner(heap[ref])
            IN /\ w \in {0, 1, -1}
               /\ (w # 0) <=> (\E p \in Players : HasFive(heap[ref], p))
               /\ (w # 0) => HasFive(heap[ref], w)

\* a run of exactly five on the anti-diagonal, completed by a call on the
\* board's edge, with a winner
C5_Witness ==
    /\ pc = "api"
    /\ ncalls > 0
    /\ call.ref = 1
    /\ <<call.row, call.col>> = <<Size - 1, 0>>
    /\ FiveAt(heap[1], call.player, Size - 1, 0, <<-1, 1>>)
    /\ get_winner(heap[1]) = call.player

\* C6: copy() returns a new board with the cells and last_move of the
\* original; a perform_move on the copy leaves the original as it was, and
\* one on the original leaves the copy as it was.
C6_CopyIndependent ==
    [][/\ (cpy = 0 /\ cpy' # 0)
            => /\ cpy' \notin 1 .. Len(heap)
               /\ heap'[cpy'] = heap[1]
               /\ heap'[1] = heap[1]
       /\ (cpy # 0 /\ IsCall)
            => /\ call'.ref = cpy => heap'[1] = heap[1]
               /\ call'.ref = 1 => heap'[cpy] = heap[cpy]]_vars

\* a stone has been placed on the copy, which now differs from the original
C6_Witness ==
    /\ cpy # 0
    /\ ncalls > 0
    /\ call.ref = cpy
    /\ heap[cpy].last_move = <<call.row, call.col>>
    /\ heap[cpy] # heap[1]

----------------------------------------------------------------------------
(* The search of main (lines 152-159), on a board of the turn loop.         *)
(* The boards it starts from are not terminal.  They are the board without  *)
(* stones (the computer's turn comes with no stone placed when perform_move *)
(* ignored the first input of the human) and boards that hold stones of     *)
(* both players, at most one more of the human (1) than of the computer     *)
(* (-1): a full board with no run of five, taken back by a few stones of a  *)
(* corner, with or without a human stone that blocks the first row.         *)

\* the full board: the first row is the computer's up to column WinLen - 1
\* (but for the blocking stone), the other rows repeat 1 1 -1 -1, shifted by
\* two from one row to the next
FullCell(r, c, blocked) ==
    IF r = 0
    THEN (IF c >= WinLen \/ (blocked /\ c = 2) THEN 1 ELSE -1)
    ELSE (IF (c + 2 * r) % 4 < 2 THEN 1 ELSE -1)

\* the cells that may be Empty when the search starts
HoleCells == {<<0, 0>>, <<0, 1>>, <<1, 0>>, <<1, 1>>, <<0, 4>>}

SearchBoard(holes, blocked) ==
    [board |-> [r \in Coord |-> [c \in Coord |->
                    IF <<r, c>> \in holes THEN 0 ELSE FullCell(r, c, blocked)]],
     last_move |-> <<Size - 1, Size - 1>>]

Stones(b, p) == Cardinality({i \in CellNumbers : At(b, i \div Size, i % Size) = p})

SearchBoards ==
    {b \in {SearchBoard(holes, blocked) :
                holes \in {H \in SUBSET HoleCells : H # {} /\ Cardinality(H) <= MaxEmpty},
                blocked \in BOOLEAN} :
        /\ ~is_terminal(b)
        /\ Stones(b, 1) >= 1
        /\ Stones(b, 1) <= Stones(b, -1) + 1}

\* root = MCTSNode(board): the root holds the caller's board, reference 1
Init ==
    /\ heap \in {<<b>> : b \in SearchBoards \cup {NewBoard}}
    /\ given = heap[1]
    /\ nodes = <<NewNode(1, 0)>>
    /\ pc = "loop"
    /\ node = 0
    /\ cur = 0
    /\ result = 0
    /\ iter = 0
    /\ move = None
    /\ cpy = 0
    /\ call = NoCall
    /\ ncalls = 0
    /\ player_turn = -1

\* what the search leaves alone: the variables of the board harness, the
\* record of the board the search was given and the turn
otherVars == <<cpy, call, ncalls, given, player_turn>>

\* an exception leaves main
Crash ==
    /\ pc' = "crashed"
    /\ UNCHANGED <<heap, nodes, node, cur, result, iter, move, otherVars>>

\* for _ in range(...): one more iteration, select(root) is called
LoopNext ==
    /\ pc = "loop"
    /\ iter < MaxIter
    /\ pc' = "select"
    /\ node' = 1
    /\ UNCHANGED <<heap, nodes, cur, result, iter, move, otherVars>>

\* select: the while condition fails, node is returned
SelectReturn ==
    /\ pc = "select"
    /\ is_terminal(heap[nodes[node].state])
    /\ pc' = "simulate"
    /\ UNCHANGED <<heap, nodes, node, cur, result, iter, move, otherVars>>

\* select: return expand(node)
SelectExpand ==
    /\ pc = "select"
    /\ ~is_terminal(heap[nodes[node].state])
    /\ Len(nodes[node].children) < Len(get_legal_moves(heap[nodes[node].state]))
    /\ \E o \in expand(nodes, heap, node) :
          IF o.ret = Raised
          THEN Crash
          ELSE /\ nodes' = o.nodes
               /\ heap' = o.heap
               /\ node' = o.ret
               /\ pc' = "simulate"
               /\ UNCHANGED <<cur, result, iter, move, otherVars>>

\* select with `if len(node.children) == 0` in place of the comparison with
\* the legal moves: it descends as soon as the node has a child
SelectDescendEarly ==
    /\ pc = "select"
    /\ ~is_terminal(heap[nodes[node].state])
    /\ Len(nodes[node].children) >= 1
    /\ LET bc == best_child(nodes, node)
       IN IF bc = Raised \/ bc = 0
          THEN Crash
          ELSE /\ node' = bc
               /\ UNCHANGED <<heap, nodes, pc, cur, result, iter, move, otherVars>>

\* select: node = best_child(node), and the while condition is read again
SelectDescend ==
    /\ pc = "select"
    /\ ~is_terminal(heap[nodes[node].state])
    /\ Len(nodes[node].children) >= Len(get_legal_moves(heap[nodes[node].state]))
    /\ LET bc == best_child(nodes, node)
       IN IF bc = Raised \/ bc = 0
          THEN Crash
          ELSE /\ node' = bc
               /\ UNCHANGED <<heap, nodes, pc, cur, result, iter, move, otherVars>>

\* simulate: current_state = node.state.copy()
SimulateCopy ==
    /\ pc = "simulate"
    /\ IF node = 0
       THEN Crash
       ELSE LET k == copy(heap, nodes[node].state)
            IN /\ heap' = k.heap
               /\ cur' = k.ref
               /\ pc' = "playout"
               /\ UNCHANGED <<nodes, node, result, iter, move, otherVars>>

\* simulate: one turn of the while loop
PlayoutStep ==
    /\ pc = "playout"
    /\ ~is_terminal(heap[cur])
    /\ LET legal_moves == get_legal_moves(heap[cur])
       IN IF legal_moves = <<>>
          THEN Crash
          ELSE \E i \in 1 .. Len(legal_moves) :
                 /\ heap' = perform_move(heap, cur, legal_moves[i][1],
                                         legal_moves[i][2], Searcher)
                 /\ UNCHANGED <<nodes, pc, node, cur, result, iter, move, otherVars>>

\* simulate with `return -current_state.get_winner()`
PlayoutReturnNegated ==
    /\ pc = "playout"
    /\ is_terminal(heap[cur])
    /\ result' = -get_winner(heap[cur])
    /\ heap' = collect(heap, nodes)
    /\ cur' = 0
    /\ pc' = "backprop"
    /\ UNCHANGED <<nodes, node, iter, move, otherVars>>

\* simulate: return current_state.get_winner()
PlayoutReturn ==
    /\ pc = "playout"
    /\ is_terminal(heap[cur])
    /\ result' = get_winner(heap[cur])
    /\ heap' = collect(heap, nodes)
    /\ cur' = 0
    /\ pc' = "backprop"
    /\ UNCHANGED <<nodes, node, iter, move, otherVars>>

\* backpropagate(selected_node, result), and the iteration is over
Backpropagate ==
    /\ pc = "backprop"
    /\ nodes' = backpropagate(nodes, node, result)
    /\ iter' = iter + 1
    /\ pc' = "loop"
    /\ UNCHANGED <<heap, node, cur, result, move, otherVars>>

\* the loop is over: best_child(root) and row, col = ...state.last_move.
\* The number of iterations is any number from 1 to MaxIter.
BestMove ==
    /\ pc = "loop"
    /\ iter >= 1
    /\ LET bc == best_child(nodes, 1)
       IN IF bc = Raised \/ bc = 0 \/ heap[nodes[bc].state].last_move = None
          THEN Crash
          ELSE /\ move' = heap[nodes[bc].state].last_move
               /\ pc' = "done"
               /\ UNCHANGED <<heap, nodes, node, cur, result, iter, otherVars>>

Next ==
    \/ LoopNext
    \/ SelectReturn
    \/ SelectExpand
    \/ SelectDescend
    \/ SimulateCopy
    \/ PlayoutStep
    \/ PlayoutReturn
    \/ Backpropagate
    \/ BestMove

Spec == Init /\ [][Next]_vars

\* The search is checked for its end on the boards whose Empty cells are
\* among these
FairHoleCells == {<<0, 0>>, <<0, 1>>, <<1, 0>>}

InitFair ==
    /\ Init
    /\ \A x \in HoleCells \ FairHoleCells : heap[1].board[x[1]][x[2]] # 0

\* main is one thread that nothing suspends: a step that can be taken is taken
FairSpec == InitFair /\ [][Next]_vars /\ WF_vars(Next)

----------------------------------------------------------------------------
(* Claims about the search *)

\* the elements of a sequence
Range(seq) == {seq[i] : i \in 1 .. Len(seq)}

\* the number of stones of a board
StoneCount(b) == Stones(b, 1) + Stones(b, -1)

\* C1: the search of a board that holds a stone and is not terminal, with
\* any number of iterations from 1 on and any random choices, raises nothing
\* and returns a move that is among get_legal_moves() of the board given.
C1_MoveIsLegal ==
    StoneCount(given) >= 1 =>
        /\ pc # "crashed"
        /\ pc = "done" => move \in Range(get_legal_moves(given))

\* a search has returned after the root was fully expanded and descended
\* from, on a board with an Empty cell that is not a legal move
C1_Witness ==
    /\ pc = "done"
    /\ Len(get_legal_moves(given)) < Stones(given, 0)
    /\ iter > Len(get_legal_moves(given))
    /\ move \in Range(get_legal_moves(given))

\* the nodes of the subtree of m, by the children lists
RECURSIVE Subtree(_, _)
Subtree(ns, m) ==
    {m} \cup UNION {Subtree(ns, ns[m].children[k]) : k \in 1 .. Len(ns[m].children)}

\* C7: backpropagate(node, result), for any node of the tree and any result,
\* adds exactly 1 to visits at the node, at each of its ancestors and at the
\* root, and leaves visits and wins of all the other nodes as they were.
C7_BackpropagateVisits ==
    (pc \in {"loop", "select", "simulate", "playout", "backprop", "done"}) =>
        \A n \in 1 .. Len(nodes) : \A res \in {-1, 0, 1} :
            LET after == backpropagate(nodes, n, res)
            IN /\ Len(after) = Len(nodes)
               /\ after[1].visits = nodes[1].visits + 1
               /\ \A m \in 1 .. Len(nodes) :
                     IF n \in Subtree(nodes, m)
                     THEN after[m].visits = nodes[m].visits + 1
                     ELSE /\ after[m].visits = nodes[m].visits
                          /\ after[m].wins = nodes[m].wins

\* backpropagate has just run from a node two levels below the root, in a
\* tree with nodes off its path
C7_Witness ==
    /\ pc = "loop"
    /\ node > 1
    /\ nodes[node].parent > 1
    /\ nodes[node].visits = 1
    /\ Len(nodes[1].children) > 1

\* C8: at any time of a search no node has two children with the same
\* last_move, and the last_move of every child is among get_legal_moves()
\* of the state of its parent.
C8_ChildrenDistinctLegal ==
    \A n \in 1 .. Len(nodes) :
        LET ch == nodes[n].children
            legal == Range(get_legal_moves(heap[nodes[n].state]))
        IN /\ \A i \in 1 .. Len(ch) : \A j \in 1 .. Len(ch) :
                 i # j => heap[nodes[ch[i]].state].last_move
                              # heap[nodes[ch[j]].state].last_move
           /\ \A i \in 1 .. Len(ch) : heap[nodes[ch[i]].state].last_move \in legal

\* the root is fully expanded, with several children, and a child of the
\* root has a child
C8_Witness ==
    /\ Len(nodes[1].children) > 1
    /\ Len(nodes[1].children) = Len(get_legal_moves(heap[1]))
    /\ \E n \in 2 .. Len(nodes) : nodes[n].children # <<>>

\* C9: a search of a board with a stone comes to its end and returns: the
\* descent of select and the playout of simulate stop, every step of either
\* going to a board with more stones.
C9_SearchReturns == <>(pc = "done")

\* a search has run MaxIter iterations and returned
C9_Witness ==
    /\ pc = "done"
    /\ iter = MaxIter
    /\ nodes[1].visits = MaxIter

\* C10: the root holds the caller's board itself, and no step of the search
\* changes the cells or last_move of that board or of the state of a node
\* of the tree; a node keeps the state it was made with.
C10_StatesUntouched ==
    [][/\ nodes[1].state = 1
       /\ heap'[1] = given
       /\ \A i \in 1 .. Len(nodes) :
             /\ nodes'[i].state = nodes[i].state
             /\ heap'[nodes[i].state] = heap[nodes[i].state]]_vars

\* a playout from a node below the root has put stones on its copy and
\* returned, the caller's board being as it was given
C10_Witness ==
    /\ pc = "backprop"
    /\ node > 1
    /\ result = Searcher
    /\ nodes[1].state = 1
    /\ heap[1] = given
    /\ heap[nodes[node].state] # given

\* the nodes on which the step to come evaluates best_child: the node of
\* select when it is not terminal and has a child for every legal move
\* (line 87), and the root when the loop of main is over (line 158)
BestChildEvaluatedOn ==
    {n \in 1 .. Len(nodes) :
        \/ /\ pc = "select"
           /\ n = node
           /\ ~is_terminal(heap[nodes[n].state])
           /\ Len(nodes[n].children) >= Len(get_legal_moves(heap[nodes[n].state]))
        \/ /\ pc = "loop"
           /\ iter >= 1
           /\ n = 1}

\* C11: every evaluation of best_child(node), in select and for the final
\* move, happens in a state where node.visits >= 1 and every child of node
\* has visits >= 1.
C11_BestChildVisited ==
    \A n \in BestChildEvaluatedOn :
        /\ nodes[n].visits >= 1
        /\ \A k \in 1 .. Len(nodes[n].children) : nodes[nodes[n].children[k]].visits >= 1

\* C12: backpropagate(node, result) adds exactly 1 to wins at every node on
\* the path from node to the root inclusive when result is -1, and leaves
\* wins of every node as it was when result is 0 or 1, whatever the depth
\* of node.
C12_BackpropagateWins ==
    \A n \in 1 .. Len(nodes) : \A res \in {-1, 0, 1} :
        LET after == backpropagate(nodes, n, res)
        IN \A m \in 1 .. Len(nodes) :
              after[m].wins =
                  IF res = -1 /\ n \in Subtree(nodes, m)
                  THEN nodes[m].wins + 1
                  ELSE nodes[m].wins

\* backpropagate has just credited a win from a node two levels below the
\* root, in a tree with nodes off its path
C12_Witness ==
    /\ pc = "loop"
    /\ result = -1
    /\ node > 1
    /\ nodes[node].parent > 1
    /\ nodes[node].wins = 1
    /\ nodes[nodes[node].parent].wins >= 2
    /\ Len(nodes[1].children) > 1

\* the nodes above n, by the parent links
RECURSIVE Ancestors(_, _)
Ancestors(ns, n) ==
    IF ns[n].parent = 0 THEN {} ELSE {ns[n].parent} \cup Ancestors(ns, ns[n].parent)

\* a node with a child for every legal move of its state
FullyExpanded(n) ==
    Len(nodes[n].children) = Len(get_legal_moves(heap[nodes[n].state]))

\* C13: in every state of a search every node that has a child has only
\* fully expanded ancestors, and the node select returns is terminal or was
\* not in the tree before the call.
C13_DescendOnlyWhenFull ==
    /\ [](\A n \in 1 .. Len(nodes) :
             nodes[n].children # <<>> =>
                 \A a \in Ancestors(nodes, n) : FullyExpanded(a))
    /\ [][(pc = "select" /\ pc' = "simulate") =>
             \/ is_terminal(heap'[nodes'[node'].state])
             \/ node' > Len(nodes)]_vars

\* select has gone down from the fully expanded root, which has several
\* children, and returned a new node below a child of the root, on a board
\* that is not terminal
C13_Witness ==
    /\ pc = "simulate"
    /\ node = Len(nodes)
    /\ nodes[node].parent > 1
    /\ ~is_terminal(heap[nodes[node].state])
    /\ Len(nodes[1].children) > 1
    /\ FullyExpanded(1)

\* the number of parent links from n to the root
RECURSIVE Depth(_, _)
Depth(ns, n) == IF ns[n].parent = 0 THEN 0 ELSE 1 + Depth(ns, ns[n].parent)

\* the cells in which two boards differ
DiffCells(a, b) ==
    {<<i \div Size, i % Size>> : i \in {j \in CellNumbers :
        a.board[j \div Size][j % Size] # b.board[j \div Size][j % Size]}}

\* C14: the state of every node below the root equals the state of its
\* parent except in one cell, its last_move, Empty in the parent and -1 in
\* the child; a node at depth d holds d more stones of player -1 than the
\* root and the same stones of player 1.
C14_ChildIsParentPlusStone ==
    \A n \in 2 .. Len(nodes) :
        LET child == heap[nodes[n].state]
            parent == heap[nodes[nodes[n].parent].state]
            root == heap[nodes[1].state]
        IN /\ DiffCells(parent, child) = {child.last_move}
           /\ parent.board[child.last_move[1]][child.last_move[2]] = 0
           /\ child.board[child.last_move[1]][child.last_move[2]] = -1
           /\ Stones(child, -1) = Stones(root, -1) + Depth(nodes, n)
           /\ Stones(child, 1) = Stones(root, 1)

\* the tree has a node two levels below the root
C14_Witness ==
    \E n \in 2 .. Len(nodes) :
        /\ Depth(nodes, n) = 2
        /\ Stones(heap[nodes[n].state], -1) = Stones(given, -1) + 2

\* the boards with one stone
OneStoneBoards ==
    {[NewBoard EXCEPT !.board[r][c] = p] : r \in Coord, c \in Coord, p \in Players}

\* C15: a board with a stone and an Empty cell has a legal move (on the
\* board last allocated, which every board of the heap once was, and on
\* the boards with one stone); so in a search of a board with a stone a
\* board on which the playout finds no move is terminal, and so is the
\* state of a node without children on which best_child is evaluated.
C15_LegalMoveExists ==
    /\ get_legal_moves(heap[Len(heap)]) = <<>> =>
          (Stones(heap[Len(heap)], 0) = 0 \/ StoneCount(heap[Len(heap)]) = 0)
    /\ (pc = "loop" /\ iter = 0) =>
          \A b \in OneStoneBoards : get_legal_moves(b) # <<>>
    /\ (pc = "playout" /\ get_legal_moves(heap[cur]) = <<>> /\ StoneCount(given) >= 1)
          => is_terminal(heap[cur])
    /\ (pc = "select" /\ nodes[node].children = <<>> /\ StoneCount(given) >= 1
           /\ get_legal_moves(heap[nodes[node].state]) = <<>>)
          => is_terminal(heap[nodes[node].state])
    /\ (pc = "loop" /\ iter >= 1 /\ nodes[1].children = <<>> /\ StoneCount(given) >= 1)
          => is_terminal(heap[1])

\* a playout from a node below the root is to choose among several moves,
\* in the search of a board with an Empty cell that is no legal move
C15_Witness ==
    /\ pc = "playout"
    /\ node > 1
    /\ ~is_terminal(heap[cur])
    /\ Len(get_legal_moves(heap[cur])) >= 2
    /\ Len(get_legal_moves(given)) < Stones(given, 0)

----------------------------------------------------------------------------
(* The turn loop of main (lines 142-162), from the new board.  A turn of    *)
(* the computer is one step: the search of lines 152-159, whose steps are   *)
(* the actions of Spec, is taken by what it returns.                        *)

\* the number of turns of the loop that are followed
MaxTurns == 4

\* the (row, col) pairs human_player returns
HumanInputs == Probes

\* lines 152-159 raise: select finds the new root not terminal and with no
\* fewer children (none) than legal moves, best_child(root) is None and the
\* loop of select reads None.state
search_raises(b) ==
    /\ ~is_terminal(b)
    /\ Len(NewNode(1, 0).children) >= Len(get_legal_moves(b))
    /\ best_child(<<NewNode(1, 0)>>, 1) = 0

\* the (row, col) lines 152-159 can leave: the last_move of a child of the
\* root, which expand makes for legal moves of the board (lines 91-97)
search_moves(b) == Range(get_legal_moves(b))

\* board = GameBoard(); player_turn = 1
MainInit ==
    /\ heap = <<NewBoard>>
    /\ player_turn = 1
    /\ pc = "turn"
    /\ nodes = <<>>
    /\ node = 0
    /\ cur = 0
    /\ result = 0
    /\ iter = 0
    /\ move = None
    /\ given = None
    /\ cpy = 0
    /\ call = NoCall
    /\ ncalls = 0

\* a turn of the human: lines 150, 161 and 162
HumanTurn(row, col) ==
    /\ pc = "turn"
    /\ ~is_terminal(heap[1])
    /\ player_turn = 1
    /\ ncalls < MaxTurns
    /\ heap' = perform_move(heap, 1, row, col, player_turn)
    /\ call' = [ref |-> 1, row |-> row, col |-> col, player |-> player_turn]
    /\ ncalls' = ncalls + 1
    /\ player_turn' = -player_turn
    /\ UNCHANGED <<cpy, nodes, pc, node, cur, result, iter, move, given>>

\* a turn of the computer: lines 152-159, 161 and 162
ComputerTurn ==
    /\ pc = "turn"
    /\ ~is_terminal(heap[1])
    /\ player_turn = -1
    /\ ncalls < MaxTurns
    /\ ~search_raises(heap[1])
    /\ \E mv \in search_moves(heap[1]) :
          /\ move' = mv
          /\ heap' = perform_move(heap, 1, mv[1], mv[2], player_turn)
          /\ call' = [ref |-> 1, row |-> mv[1], col |-> mv[2], player |-> player_turn]
    /\ given' = heap[1]
    /\ ncalls' = ncalls + 1
    /\ player_turn' = -player_turn
    /\ UNCHANGED <<cpy, nodes, pc, node, cur, result, iter>>

\* a turn of the computer in which the search raises: the exception leaves
\* main
ComputerRaises ==
    /\ pc = "turn"
    /\ ~is_terminal(heap[1])
    /\ player_turn = -1
    /\ search_raises(heap[1])
    /\ nodes' = <<NewNode(1, 0)>>
    /\ given' = heap[1]
    /\ pc' = "crashed"
    /\ UNCHANGED <<heap, cpy, call, ncalls, node, cur, result, iter, move, player_turn>>

MainNext ==
    \/ \E x \in HumanInputs : HumanTurn(x[1], x[2])
    \/ ComputerTurn
    \/ ComputerRaises

SpecMain == MainInit /\ [][MainNext]_vars

\* C16: in the turn loop, whatever the human enters, the board holds a
\* stone whenever the search of the computer starts, and the search does
\* not come to evaluate best_child on a node without children.
C16_SearchStartsWithStone ==
    /\ (pc = "turn" /\ player_turn = -1 /\ ~is_terminal(heap[1]))
          => StoneCount(heap[1]) >= 1
    /\ pc # "crashed"

\* C19: after every turn the number of stones of the human minus the
\* number of stones of the computer is 0 or 1, whatever the human enters.
C19_StrictAlternation ==
    Stones(heap[1], 1) - Stones(heap[1], -1) \in {0, 1}

\* the sum of visits of the children of n from child number k on
RECURSIVE ChildVisits(_, _, _)
ChildVisits(ns, n, k) ==
    IF k > Len(ns[n].children) THEN 0
    ELSE ns[ns[n].children[k]].visits + ChildVisits(ns, n, k + 1)

\* C17: after every completed iteration of a search (iter of them) the
\* visits of the root are iter and the sum of the visits of its children,
\* every node below the root has visits >= 1, every node has
\* 0 <= wins <= visits, and the tree has at most iter + 1 nodes.
C17_TreeCounts ==
    pc \in {"loop", "done"} =>
        /\ nodes[1].visits = iter
        /\ nodes[1].visits = ChildVisits(nodes, 1, 1)
        /\ \A n \in 2 .. Len(nodes) : nodes[n].visits >= 1
        /\ \A n \in 1 .. Len(nodes) : 0 <= nodes[n].wins /\ nodes[n].wins <= nodes[n].visits
        /\ Len(nodes) <= iter + 1

\* MaxIter iterations are over: one of them selected a terminal node of the
\* tree and made no node, and a child of the root was visited more than
\* once
C17_Witness ==
    /\ pc = "loop"
    /\ iter = MaxIter
    /\ Len(nodes) < iter + 1
    /\ Len(nodes[1].children) > 1
    /\ \E n \in 2 .. Len(nodes) : nodes[n].visits >= 2

\* C18: what simulate returns is -1 or 0, never 1: -1 when the board the
\* playout ends on has five in a row of player -1, and 0 only when that
\* board is full and has no five in a row.
C18_SimulateResult ==
    [][(pc = "playout" /\ pc' = "backprop") =>
          /\ result' \in {-1, 0}
          /\ result' = -1 => HasFive(heap[cur], -1)
          /\ result' = 0 =>
                /\ Stones(heap[cur], 0) = 0
                /\ ~HasFive(heap[cur], -1)
                /\ ~HasFive(heap[cur], 1)]_vars

\* simulate has returned 0 from a node below the root after a playout of
\* several moves
C18_Witness ==
    /\ pc = "backprop"
    /\ result = 0
    /\ node > 1
    /\ Stones(heap[nodes[node].state], 0) >= 2

\* the nodes with a child, themselves and all their children visited
ScoredNodes ==
    {n \in 1 .. Len(nodes) :
        /\ nodes[n].children # <<>>
        /\ nodes[n].visits >= 1
        /\ \A k \in 1 .. Len(nodes[n].children) : nodes[nodes[n].children[k]].visits >= 1}

\* the score of child number k of n
ChildScore(n, k) ==
    uct_score(nodes[nodes[n].children[k]].wins, nodes[nodes[n].children[k]].visits,
              nodes[n].visits)

\* C20: best_child(node), for a node with children, all visited, returns
\* the child of maximal score wins/visits + 1.4 * sqrt(ln(node.visits) /
\* visits), and among the children of maximal score the first one.
C20_BestChildIsFirstMax ==
    \A n \in ScoredNodes :
        \E k \in 1 .. Len(nodes[n].children) :
            /\ best_child(nodes, n) = nodes[n].children[k]
            /\ \A j \in 1 .. Len(nodes[n].children) : ChildScore(n, j) <= ChildScore(n, k)
            /\ \A j \in 1 .. (k - 1) : ChildScore(n, j) < ChildScore(n, k)

\* the root has a child of lower score before its best child and a child
\* of the same score after it
C20_Witness ==
    /\ 1 \in ScoredNodes
    /\ \E k \in 2 .. Len(nodes[1].children) :
          /\ best_child(nodes, 1) = nodes[1].children[k]
          /\ \E j \in (k + 1) .. Len(nodes[1].children) : ChildScore(1, j) = ChildScore(1, k)

====
